---- MODULE Spec2Model ----
(***************************************************************************)
(* A model of the vector-store wrapper (src/vector_db.py: class VectorDB   *)
(* and build_vector_db_from_dataframes) and of the query flow of           *)
(* src/multimodal_rag.py.                                                  *)
(*                                                                         *)
(* The persistent store is a function from the names of the collections    *)
(* that exist to the collections; a collection is its metadata and a       *)
(* function from the ids it holds to the items.  A Python string is the    *)
(* sequence of its characters, so that formatting an id is a concatenation *)
(* and two ids are equal exactly when the strings are.  A Python call is   *)
(* an operator from the store before it to a record of the store after it, *)
(* the value returned and whether an exception left the call.              *)
(***************************************************************************)
EXTENDS Integers, Sequences, FiniteSets, TLC

VARIABLES store, pre, op,
          pc, text_metadata_df, image_metadata_df, query_embedding,
          text_results, image_results, matching_results_chunks_data,
          matching_results_image_fromdescription_data, prompt, calls

vars == <<store, pre, op, pc, text_metadata_df, image_metadata_df,
          query_embedding, text_results, image_results,
          matching_results_chunks_data,
          matching_results_image_fromdescription_data, prompt, calls>>

dbvars == <<store, pre, op>>

scriptvars == <<pc, text_metadata_df, image_metadata_df, query_embedding,
                text_results, image_results, matching_results_chunks_data,
                matching_results_image_fromdescription_data, prompt, calls>>

(***************************************************************************)
(* Bounds of the model.                                                    *)
(***************************************************************************)
\* the most items the API actions put in one collection
MaxCount == 2
\* the most text rows and image rows that processing the PDFs yields
MaxCorpus == 6
MaxImages == 3

(***************************************************************************)
(* Program constants.                                                      *)
(***************************************************************************)
DefaultDimension == 768
ImageDimension == 3072
TopK == 5

(***************************************************************************)
(* Strings.                                                                *)
(***************************************************************************)
Digit == <<"0", "1", "2", "3", "4", "5", "6", "7", "8", "9">>

\* str(n) of a natural number: its decimal digits
RECURSIVE Str(_)
Str(n) == IF n < 10 THEN <<Digit[n + 1]>>
          ELSE Str(n \div 10) \o <<Digit[(n % 10) + 1]>>

\* sep.join(parts) of a sequence of strings
RECURSIVE Join(_, _)
Join(sep, parts) ==
    IF Len(parts) = 0 THEN << >>
    ELSE IF Len(parts) = 1 THEN parts[1]
    ELSE parts[1] \o sep \o Join(sep, Tail(parts))

Range(f) == {f[x] : x \in DOMAIN f}

Min(a, b) == IF a <= b THEN a ELSE b

(***************************************************************************)
(* The embedded vector database, as the wrapper uses it.                   *)
(***************************************************************************)
\* client.get_collection(name) raises when no collection has that name
ClientHasCollection(s, name) == name \in DOMAIN s

\* client.create_collection(name, metadata): a new collection without items
ClientCreateCollection(s, name, metadata) ==
    [n \in DOMAIN s \cup {name} |->
        IF n = name THEN [metadata |-> metadata, items |-> << >>] ELSE s[n]]

\* client.delete_collection(name): the collection and its items are gone
ClientDeleteCollection(s, name) == [n \in DOMAIN s \ {name} |-> s[n]]

\* collection.count()
CollectionCount(s, name) == Cardinality(DOMAIN s[name].items)

\* collection.add raises on an empty batch, on lists of different lengths and
\* on an id given twice in the batch
AddRaises(ids, documents, embeddings, metadatas) ==
    \/ Len(ids) = 0
    \/ Len(documents) # Len(ids)
    \/ Len(embeddings) # Len(ids)
    \/ Len(metadatas) # Len(ids)
    \/ \E i, j \in 1..Len(ids) : i # j /\ ids[i] = ids[j]

\* collection.add of a valid batch: a record whose id the collection already
\* holds is skipped, every other record is stored under its id
CollectionAdd(s, name, ids, documents, embeddings, metadatas) ==
    LET old == s[name].items
        new == [id \in DOMAIN old \cup Range(ids) |->
                  IF id \in DOMAIN old THEN old[id]
                  ELSE LET i == CHOOSE k \in 1..Len(ids) : ids[k] = id
                       IN  [document |-> documents[i],
                            embedding |-> embeddings[i],
                            metadata |-> metadatas[i]]]
    IN  [s EXCEPT ![name].items = new]

(***************************************************************************)
(* class VectorDB.  Each method is an operator from the store to           *)
(* [store, ret, raised].                                                   *)
(***************************************************************************)
None == "None"

Returns(s, value) == [store |-> s, ret |-> value, raised |-> FALSE]

Raises(s) == [store |-> s, ret |-> None, raised |-> TRUE]

\* a variant that creates without trying to load first
get_or_create_collection_creates(s, collection_name, embedding_dimension) ==
    Returns(ClientCreateCollection(s, collection_name,
                [dimension |-> embedding_dimension]),
            collection_name)

\* the try branch loads the collection, the except branch creates it
get_or_create_collection(s, collection_name, embedding_dimension) ==
    IF ClientHasCollection(s, collection_name)
    THEN Returns(s, collection_name)
    ELSE Returns(ClientCreateCollection(s, collection_name,
                     [dimension |-> embedding_dimension]),
                 collection_name)

\* a variant that loads the collection through get_or_create_collection
get_collection_count_creates(s, collection_name) ==
    LET s1 == get_or_create_collection(s, collection_name, DefaultDimension).store
    IN  Returns(s1, CollectionCount(s1, collection_name))

\* a variant without the except clause
delete_collection_uncaught(s, collection_name) ==
    IF ClientHasCollection(s, collection_name)
    THEN Returns(ClientDeleteCollection(s, collection_name), None)
    ELSE Raises(s)

collection_exists(s, collection_name) ==
    IF ClientHasCollection(s, collection_name)
    THEN Returns(s, TRUE)
    ELSE Returns(s, FALSE)

get_collection_count(s, collection_name) ==
    IF ClientHasCollection(s, collection_name)
    THEN Returns(s, CollectionCount(s, collection_name))
    ELSE Returns(s, 0)

\* client.delete_collection raises for a missing name; the except clause
\* prints and returns
delete_collection(s, collection_name) ==
    IF ClientHasCollection(s, collection_name)
    THEN Returns(ClientDeleteCollection(s, collection_name), None)
    ELSE Returns(s, None)

list_collections(s) == Returns(s, DOMAIN s)

TextPrefix == <<"t", "e", "x", "t", "_">>
ImgPrefix == <<"i", "m", "g", "_">>
ImgTxtPrefix == <<"i", "m", "g", "t", "x", "t", "_">>
Underscore == <<"_">>

\* [f"text_{existing_count + i}" for i in range(n)]
TextAutoIds(existing_count, n) ==
    [k \in 1..n |-> TextPrefix \o Str(existing_count + (k - 1))]

\* [f"img_{existing_count + i}" for i in range(n)]
ImgAutoIds(existing_count, n) ==
    [k \in 1..n |-> ImgPrefix \o Str(existing_count + (k - 1))]

\* The optional argument ids: NoIds is None, Ids(l) is the list l.
NoIds == {}

Ids(l) == {l}

TheIds(ids) == CHOOSE l \in ids : TRUE

add_text_embeddings(s, collection_name, texts, embeddings, metadatas, ids) ==
    LET s1 == get_or_create_collection(s, collection_name, DefaultDimension).store
        ids1 == IF ids = NoIds
                THEN TextAutoIds(CollectionCount(s1, collection_name), Len(texts))
                ELSE TheIds(ids)
    IN  IF AddRaises(ids1, texts, embeddings, metadatas)
        THEN Raises(s1)
        ELSE Returns(CollectionAdd(s1, collection_name, ids1, texts,
                                   embeddings, metadatas), None)

add_image_embeddings(s, collection_name, image_descriptions, embeddings, metadatas, ids) ==
    LET s1 == get_or_create_collection(s, collection_name, ImageDimension).store
        ids1 == IF ids = NoIds
                THEN ImgAutoIds(CollectionCount(s1, collection_name),
                                Len(image_descriptions))
                ELSE TheIds(ids)
    IN  IF AddRaises(ids1, image_descriptions, embeddings, metadatas)
        THEN Raises(s1)
        ELSE Returns(CollectionAdd(s1, collection_name, ids1,
                                   image_descriptions, embeddings, metadatas),
                     None)

(***************************************************************************)
(* collection.query and VectorDB.search_similar.  An embedding is a        *)
(* one-dimensional vector, the distance is the squared difference.  The    *)
(* index returns the nearest Min(n_results, count) items, nearest first,   *)
(* in any order among items at the same distance.                          *)
(***************************************************************************)
Distance(e, q) == (e - q) * (e - q)

Rankings(items, q, n_results) ==
    LET m == Min(n_results, Cardinality(DOMAIN items))
        d(id) == Distance(items[id].embedding, q)
    IN  {r \in [1..m -> DOMAIN items] :
            /\ \A i, j \in 1..m : i < j => r[i] # r[j] /\ d(r[i]) <= d(r[j])
            /\ \A id \in DOMAIN items \ Range(r) :
                   \A i \in 1..m : d(r[i]) <= d(id)}

QueryResult(items, r, q) ==
    [ids |-> <<r>>,
     documents |-> <<[i \in DOMAIN r |-> items[r[i]].document]>>,
     metadatas |-> <<[i \in DOMAIN r |-> items[r[i]].metadata]>>,
     distances |-> <<[i \in DOMAIN r |-> Distance(items[r[i]].embedding, q)]>>]

\* the outcomes of search_similar(collection_name, query_embedding, top_k)
search_similar(s, collection_name, q, top_k) ==
    LET s1 == get_or_create_collection(s, collection_name, DefaultDimension).store
        items == s1[collection_name].items
    IN  {Returns(s1, QueryResult(items, r, q)) : r \in Rankings(items, q, top_k)}

(***************************************************************************)
(* build_vector_db_from_dataframes.  A dataframe is the sequence of its    *)
(* rows.                                                                   *)
(***************************************************************************)
TextId(row) ==
    TextPrefix \o row.file_name \o Underscore \o Str(row.page_num)
               \o Underscore \o Str(row.chunk_number)

ImgId(row) ==
    ImgPrefix \o row.file_name \o Underscore \o Str(row.page_num)
              \o Underscore \o Str(row.img_num)

TextMetadata(row) ==
    [file_name |-> row.file_name, page_num |-> row.page_num,
     chunk_number |-> row.chunk_number, type |-> "text"]

ImageMetadata(row, type) ==
    [file_name |-> row.file_name, page_num |-> row.page_num,
     img_num |-> row.img_num, img_path |-> row.img_path,
     img_desc |-> row.img_desc, type |-> type]

\* df[column].tolist()
Column(df, column) == [i \in DOMAIN df |-> df[i][column]]

\* the lists the loop over df.iterrows() appends to
TextMetadatas(df) == [i \in DOMAIN df |-> TextMetadata(df[i])]

TextIds(df) == [i \in DOMAIN df |-> TextId(df[i])]

ImageMetadatas(df, type) == [i \in DOMAIN df |-> ImageMetadata(df[i], type)]

ImgIds(df) == [i \in DOMAIN df |-> ImgId(df[i])]

\* a variant that adds to the old collection
DeleteOld_skipped(s, collection_name, force_rebuild) == s

\* the delete that precedes a forced rebuild
DeleteOld(s, collection_name, force_rebuild) ==
    IF force_rebuild /\ collection_exists(s, collection_name).ret
    THEN delete_collection(s, collection_name).store
    ELSE s

\* the condition of the text branch, and a variant that ignores the flag
TextBranch_unforced(s, text_collection_name, force_rebuild) ==
    ~collection_exists(s, text_collection_name).ret

TextBranch(s, text_collection_name, force_rebuild) ==
    force_rebuild \/ ~collection_exists(s, text_collection_name).ret

\* the condition of the image branch, and a variant that always builds
ImageBranch_always(s, image_collection_name, force_rebuild) == TRUE

ImageBranch(s, image_collection_name, force_rebuild) ==
    force_rebuild \/ ~collection_exists(s, image_collection_name).ret

BuildText(s, text_df, text_collection_name, force_rebuild) ==
    IF TextBranch(s, text_collection_name, force_rebuild)
    THEN LET r == add_text_embeddings(
                      DeleteOld(s, text_collection_name, force_rebuild),
                      text_collection_name,
                      Column(text_df, "chunk_text"),
                      Column(text_df, "text_embedding_chunk"),
                      TextMetadatas(text_df),
                      Ids(TextIds(text_df)))
         IN  [store |-> r.store, ret |-> TRUE, raised |-> r.raised]
    ELSE Returns(s, FALSE)

BuildImage(s, image_df, image_collection_name, force_rebuild) ==
    IF ImageBranch(s, image_collection_name, force_rebuild)
    THEN LET r == add_image_embeddings(
                      DeleteOld(s, image_collection_name, force_rebuild),
                      image_collection_name,
                      Column(image_df, "img_desc"),
                      Column(image_df, "mm_embedding_from_img_only"),
                      ImageMetadatas(image_df, "image"),
                      Ids(ImgIds(image_df)))
         IN  [store |-> r.store, ret |-> TRUE, raised |-> r.raised]
    ELSE Returns(s, FALSE)

build_vector_db_from_dataframes(s, text_df, image_df, text_collection_name, image_collection_name, force_rebuild) ==
    LET t == BuildText(s, text_df, text_collection_name, force_rebuild)
    IN  IF t.raised THEN Raises(t.store)
        ELSE LET i == BuildImage(t.store, image_df, image_collection_name,
                                 force_rebuild)
             IN  IF i.raised THEN Raises(i.store)
                 ELSE Returns(i.store, <<t.ret, i.ret>>)

(***************************************************************************)
(* The inputs of the calls.                                                *)
(***************************************************************************)
\* the default collection names of build_vector_db_from_dataframes
Names == {"text_embeddings", "image_embeddings"}

Entry1 == [document |-> <<"d", "1">>, embedding |-> 0,
           metadata |-> [type |-> "text"]]
Entry2 == [document |-> <<"d", "2">>, embedding |-> 1,
           metadata |-> [type |-> "image"]]

\* the parallel lists handed to an add, as the list of their records
Batches == {<< >>, <<Entry1>>, <<Entry1, Entry2>>}

Documents(batch) == [i \in DOMAIN batch |-> batch[i].document]
Embeddings(batch) == [i \in DOMAIN batch |-> batch[i].embedding]
Metadatas(batch) == [i \in DOMAIN batch |-> batch[i].metadata]

\* ids a caller supplies: one that has the shape of a generated id, a list
\* that names an id twice, and none
CustomIds == {NoIds,
              Ids(<<TextPrefix \o Str(1)>>),
              Ids(<<ImgPrefix \o Str(0), ImgPrefix \o Str(0)>>)}

Queries == {0, 1}

TextRow1 == [file_name |-> <<"a">>, page_num |-> 1, chunk_number |-> 11,
             chunk_text |-> <<"c", "1">>, text_embedding_chunk |-> 0]
TextRow2 == [file_name |-> <<"a", "_", "1">>, page_num |-> 1, chunk_number |-> 1,
             chunk_text |-> <<"c", "2">>, text_embedding_chunk |-> 1]
TextRow3 == [file_name |-> <<"a">>, page_num |-> 11, chunk_number |-> 1,
             chunk_text |-> <<"c", "3">>, text_embedding_chunk |-> 2]

ImageRow1 == [file_name |-> <<"a">>, page_num |-> 1, img_num |-> 1,
              img_path |-> <<"p", "1">>, img_desc |-> <<"i", "1">>,
              mm_embedding_from_img_only |-> 0,
              text_embedding_from_image_description |-> 1]
ImageRow2 == [file_name |-> <<"a">>, page_num |-> 1, img_num |-> 2,
              img_path |-> <<"p", "2">>, img_desc |-> <<"i", "2">>,
              mm_embedding_from_img_only |-> 1,
              text_embedding_from_image_description |-> 0]

\* the dataframes of a build: no rows, rows with distinct keys, a key twice
TextFrames == {<< >>, <<TextRow1>>, <<TextRow2, TextRow3>>,
               <<TextRow1, TextRow2, TextRow3>>, <<TextRow1, TextRow1>>}

ImageFrames == {<< >>, <<ImageRow1>>, <<ImageRow1, ImageRow2>>,
                <<ImageRow2, ImageRow2>>}

(***************************************************************************)
(* The state: the store, and for the call that has just returned its name, *)
(* its arguments, the store before it and its outcome.  The caller looks   *)
(* at the outcome (Observe) before it makes the next call.                 *)
(***************************************************************************)
Idle == [name |-> "idle"]

NoResults == [ids |-> << << >> >>, documents |-> << << >> >>,
              metadatas |-> << << >> >>, distances |-> << << >> >>]

ScriptInit ==
    /\ pc = "start"
    /\ text_metadata_df = << >>
    /\ image_metadata_df = << >>
    /\ query_embedding = 0
    /\ text_results = NoResults
    /\ image_results = NoResults
    /\ matching_results_chunks_data = << >>
    /\ matching_results_image_fromdescription_data = << >>
    /\ prompt = << >>
    /\ calls = << >>

Init ==
    /\ store = << >>
    /\ pre = << >>
    /\ op = Idle
    /\ ScriptInit

Call(name, args, r) ==
    /\ op = Idle
    /\ pre' = store
    /\ store' = r.store
    /\ op' = [name |-> name, args |-> args, ret |-> r.ret, raised |-> r.raised]
    /\ UNCHANGED scriptvars

Count(s, name) == IF name \in DOMAIN s THEN CollectionCount(s, name) ELSE 0

GetOrCreateCollection ==
    \E name \in Names, dim \in {DefaultDimension, ImageDimension} :
        Call("get_or_create_collection", [collection_name |-> name],
             get_or_create_collection(store, name, dim))

AddTextEmbeddings ==
    \E name \in Names, batch \in Batches, ids \in CustomIds :
        /\ Count(store, name) + Len(batch) <= MaxCount
        /\ Call("add_text_embeddings",
                [collection_name |-> name, batch |-> batch, ids |-> ids],
                add_text_embeddings(store, name, Documents(batch),
                                    Embeddings(batch), Metadatas(batch), ids))

AddImageEmbeddings ==
    \E name \in Names, batch \in Batches, ids \in CustomIds :
        /\ Count(store, name) + Len(batch) <= MaxCount
        /\ Call("add_image_embeddings",
                [collection_name |-> name, batch |-> batch, ids |-> ids],
                add_image_embeddings(store, name, Documents(batch),
                                     Embeddings(batch), Metadatas(batch), ids))

CollectionExists ==
    \E name \in Names :
        Call("collection_exists", [collection_name |-> name],
             collection_exists(store, name))

GetCollectionCount ==
    \E name \in Names :
        Call("get_collection_count", [collection_name |-> name],
             get_collection_count(store, name))

DeleteCollection ==
    \E name \in Names :
        Call("delete_collection", [collection_name |-> name],
             delete_collection(store, name))

ListCollections == Call("list_collections", [none |-> None], list_collections(store))

Build ==
    \E text_df \in TextFrames, image_df \in ImageFrames,
       tn \in Names, in \in Names, force_rebuild \in BOOLEAN :
        Call("build_vector_db_from_dataframes",
             [text_df |-> text_df, image_df |-> image_df,
              text_collection_name |-> tn, image_collection_name |-> in,
              force_rebuild |-> force_rebuild],
             build_vector_db_from_dataframes(store, text_df, image_df, tn, in,
                                             force_rebuild))

Observe ==
    /\ op # Idle
    /\ op' = Idle
    /\ pre' = store
    /\ UNCHANGED <<store, scriptvars>>

Next ==
    \/ Observe
    \/ GetOrCreateCollection
    \/ AddTextEmbeddings
    \/ AddImageEmbeddings
    \/ CollectionExists
    \/ GetCollectionCount
    \/ DeleteCollection
    \/ ListCollections

Spec == Init /\ [][Next]_vars

\* the build step, on the stores that builds, deletes and adds leave behind
NextBuild ==
    \/ Observe
    \/ Build
    \/ DeleteCollection
    \/ GetOrCreateCollection
    \/ AddTextEmbeddings

SpecBuild == Init /\ [][NextBuild]_vars

(***************************************************************************)
(* The script multimodal_rag.py: it builds the three collections unless    *)
(* all of them exist, then answers one query.  pc is the section of the    *)
(* script that runs next; calls lists the calls of the query part.         *)
(***************************************************************************)
text_collection_name == "text_embeddings"
image_collection_name == "image_embeddings"
image_text_collection_name == "image_text_embeddings"

Newline == <<"\n">>

\* the frames create_get_metadata_df yields: the first n rows of a corpus
CorpusTextRow(i) ==
    [file_name |-> <<"a">>, page_num |-> i, chunk_number |-> 1,
     chunk_text |-> <<"c">> \o Str(i), text_embedding_chunk |-> i % 3]

CorpusImageRow(i) ==
    [file_name |-> <<"a">>, page_num |-> i, img_num |-> 1,
     img_path |-> <<"p">> \o Str(i), img_desc |-> <<"i">> \o Str(i),
     mm_embedding_from_img_only |-> i % 2,
     text_embedding_from_image_description |-> (i + 1) % 2]

CorpusTextFrames == {[i \in 1..n |-> CorpusTextRow(i)] : n \in 0..MaxCorpus}

CorpusImageFrames == {[i \in 1..n |-> CorpusImageRow(i)] : n \in 0..MaxImages}

ImgTxtId(row) ==
    ImgTxtPrefix \o row.file_name \o Underscore \o Str(row.page_num)
                 \o Underscore \o Str(row.img_num)

\* matching_results_chunks_data: key i holds the i-th triple of the zip
ChunksData(results) ==
    LET n == Min(Len(results.documents[1]),
                 Min(Len(results.metadatas[1]), Len(results.distances[1])))
    IN  [i \in 0..(n - 1) |->
            [chunk_text |-> results.documents[1][i + 1],
             file_name |-> results.metadatas[1][i + 1].file_name,
             page_num |-> results.metadatas[1][i + 1].page_num,
             chunk_number |-> results.metadatas[1][i + 1].chunk_number,
             cosine_score |-> 1 - results.distances[1][i + 1]]]

\* matching_results_image_fromdescription_data
ImagesData(results) ==
    LET n == Min(Len(results.documents[1]),
                 Min(Len(results.metadatas[1]), Len(results.distances[1])))
    IN  [i \in 0..(n - 1) |->
            [img_path |-> results.metadatas[1][i + 1].img_path,
             img_desc |-> results.metadatas[1][i + 1].img_desc,
             image_description |-> results.documents[1][i + 1],
             file_name |-> results.metadatas[1][i + 1].file_name,
             page_num |-> results.metadatas[1][i + 1].page_num,
             img_num |-> results.metadatas[1][i + 1].img_num,
             cosine_score |-> 1 - results.distances[1][i + 1],
             image_object |-> [loaded_from |->
                                  results.metadatas[1][i + 1].img_path]]]

\* the values of a dict with keys 0..n-1, in the order of insertion
Values(data) == [i \in 1..Cardinality(DOMAIN data) |-> data[i - 1]]

\* a variant that joins the chunks without a separator
FinalContextText_unseparated(data) ==
    Join(<< >>, [i \in DOMAIN Values(data) |-> Values(data)[i].chunk_text])

FinalContextText(data) ==
    Join(Newline, [i \in DOMAIN Values(data) |-> Values(data)[i].chunk_text])

RECURSIVE Flatten(_)
Flatten(lists) ==
    IF Len(lists) = 0 THEN << >> ELSE lists[1] \o Flatten(Tail(lists))

ContextImages(data) ==
    Flatten([i \in DOMAIN Values(data) |->
                <<"Image: ", Values(data)[i].image_object,
                  "Caption: ", Values(data)[i].image_description>>])

\* the prompt, as the values its template interpolates
Prompt(chunks, images) ==
    [final_context_text |-> FinalContextText(chunks),
     context_images |-> ContextImages(images),
     query |-> "query"]

Goto(label) == pc' = label

\* lines 48-69
CheckCollections ==
    /\ pc = "start"
    /\ IF /\ collection_exists(store, text_collection_name).ret
          /\ collection_exists(store, image_collection_name).ret
          /\ collection_exists(store, image_text_collection_name).ret
       THEN /\ Goto("embed")
            /\ UNCHANGED <<text_metadata_df, image_metadata_df>>
       ELSE /\ text_metadata_df' \in CorpusTextFrames
            /\ image_metadata_df' \in CorpusImageFrames
            /\ Goto("build_text")
    /\ UNCHANGED <<dbvars, query_embedding, text_results, image_results,
                   matching_results_chunks_data,
                   matching_results_image_fromdescription_data, prompt, calls>>

ScriptStore(r, label) ==
    /\ store' = r.store
    /\ IF r.raised THEN Goto("error") ELSE Goto(label)
    /\ UNCHANGED <<pre, op, text_metadata_df, image_metadata_df,
                   query_embedding, text_results, image_results,
                   matching_results_chunks_data,
                   matching_results_image_fromdescription_data, prompt, calls>>

\* lines 75-96
ScriptBuildText ==
    /\ pc = "build_text"
    /\ ScriptStore(
           IF ~collection_exists(store, text_collection_name).ret
           THEN add_text_embeddings(store, text_collection_name,
                    Column(text_metadata_df, "chunk_text"),
                    Column(text_metadata_df, "text_embedding_chunk"),
                    TextMetadatas(text_metadata_df),
                    Ids(TextIds(text_metadata_df)))
           ELSE Returns(store, None),
           "build_image")

\* lines 99-122
ScriptBuildImage ==
    /\ pc = "build_image"
    /\ ScriptStore(
           IF ~collection_exists(store, image_collection_name).ret
           THEN add_image_embeddings(store, image_collection_name,
                    Column(image_metadata_df, "img_desc"),
                    Column(image_metadata_df, "mm_embedding_from_img_only"),
                    ImageMetadatas(image_metadata_df, "image"),
                    Ids(ImgIds(image_metadata_df)))
           ELSE Returns(store, None),
           "build_image_text")

\* lines 125-151: the script adds to the collection itself
ScriptBuildImageText ==
    /\ pc = "build_image_text"
    /\ LET s1 == get_or_create_collection(store, image_text_collection_name,
                                          DefaultDimension).store
           ids == [i \in DOMAIN image_metadata_df |->
                      ImgTxtId(image_metadata_df[i])]
           documents == Column(image_metadata_df, "img_desc")
           embeddings == Column(image_metadata_df,
                                "text_embedding_from_image_description")
           metadatas == ImageMetadatas(image_metadata_df, "image_text")
       IN  ScriptStore(
               IF ~collection_exists(store, image_text_collection_name).ret
               THEN IF AddRaises(ids, documents, embeddings, metadatas)
                    THEN Raises(s1)
                    ELSE Returns(CollectionAdd(s1, image_text_collection_name,
                                     ids, documents, embeddings, metadatas),
                                 None)
               ELSE Returns(store, None),
               "embed")

\* line 160
QueryEmbedding ==
    /\ pc = "embed"
    /\ query_embedding' \in Queries
    /\ calls' = Append(calls,
                  [fn |-> "get_text_embedding_from_text_embedding_model"])
    /\ Goto("search_text")
    /\ UNCHANGED <<dbvars, text_metadata_df, image_metadata_df, text_results,
                   image_results, matching_results_chunks_data,
                   matching_results_image_fromdescription_data, prompt>>

SearchCall(name) ==
    [fn |-> "search_similar", collection_name |-> name,
     query_embedding |-> query_embedding, top_k |-> TopK]

\* lines 164-185
SearchText ==
    /\ pc = "search_text"
    /\ \E r \in search_similar(store, text_collection_name, query_embedding,
                               TopK) :
          /\ store' = r.store
          /\ text_results' = r.ret
          /\ matching_results_chunks_data' = ChunksData(r.ret)
    /\ calls' = Append(calls, SearchCall(text_collection_name))
    /\ Goto("search_image")
    /\ UNCHANGED <<pre, op, text_metadata_df, image_metadata_df,
                   query_embedding, image_results,
                   matching_results_image_fromdescription_data, prompt>>

\* lines 189-213
SearchImage ==
    /\ pc = "search_image"
    /\ \E r \in search_similar(store, image_text_collection_name,
                               query_embedding, TopK) :
          /\ store' = r.store
          /\ image_results' = r.ret
          /\ matching_results_image_fromdescription_data' = ImagesData(r.ret)
    /\ calls' = Append(calls, SearchCall(image_text_collection_name))
    /\ Goto("generate")
    /\ UNCHANGED <<pre, op, text_metadata_df, image_metadata_df,
                   query_embedding, text_results,
                   matching_results_chunks_data, prompt>>

\* lines 217-255
Generate ==
    /\ pc = "generate"
    /\ prompt' = Prompt(matching_results_chunks_data,
                        matching_results_image_fromdescription_data)
    /\ calls' = Append(calls, [fn |-> "get_gemini_response",
                               model_input |-> <<prompt'>>])
    /\ Goto("print")
    /\ UNCHANGED <<dbvars, text_metadata_df, image_metadata_df,
                   query_embedding, text_results, image_results,
                   matching_results_chunks_data,
                   matching_results_image_fromdescription_data>>

\* lines 257-260: keys 0 and 1 of the image results are looked up
PrintMatched ==
    /\ pc = "print"
    /\ IF {0, 1} \subseteq DOMAIN matching_results_image_fromdescription_data
       THEN Goto("done")
       ELSE Goto("error")
    /\ UNCHANGED <<dbvars, text_metadata_df, image_metadata_df,
                   query_embedding, text_results, image_results,
                   matching_results_chunks_data,
                   matching_results_image_fromdescription_data, prompt, calls>>

\* the script is run again, on the store the last run left
Rerun ==
    /\ pc \in {"done", "error"}
    /\ pc' = "start"
    /\ text_metadata_df' = << >>
    /\ image_metadata_df' = << >>
    /\ query_embedding' = 0
    /\ text_results' = NoResults
    /\ image_results' = NoResults
    /\ matching_results_chunks_data' = << >>
    /\ matching_results_image_fromdescription_data' = << >>
    /\ prompt' = << >>
    /\ calls' = << >>
    /\ UNCHANGED dbvars

NextQuery ==
    \/ CheckCollections
    \/ ScriptBuildText
    \/ ScriptBuildImage
    \/ ScriptBuildImageText
    \/ QueryEmbedding
    \/ SearchText
    \/ SearchImage
    \/ Generate
    \/ PrintMatched
    \/ Rerun

SpecQuery == Init /\ [][NextQuery]_vars

(***************************************************************************)
(* Properties of class VectorDB, under Spec.                               *)
(***************************************************************************)
Called(name) == op # Idle /\ op.name = name

Arg == op.args

HasItems(s, name) == name \in DOMAIN s /\ DOMAIN s[name].items # {}

\* every collection but the one called `name` is as it was before the call
OthersUnchanged(name) ==
    \A m \in Names \ {name} :
        /\ m \in DOMAIN store <=> m \in DOMAIN pre
        /\ m \in DOMAIN pre => store[m] = pre[m]

\* C1: after get_or_create_collection(name) returns, a collection called
\* name exists; one that existed before holds exactly the items it held; one
\* that did not exist holds no items; every other collection is unchanged.
C1_GetOrCreate ==
    Called("get_or_create_collection") =>
        LET name == Arg.collection_name
        IN  /\ ~op.raised
            /\ name \in DOMAIN store
            /\ name \in DOMAIN pre => store[name].items = pre[name].items
            /\ name \notin DOMAIN pre => DOMAIN store[name].items = {}
            /\ OthersUnchanged(name)

\* the call found a collection that holds items, beside another one that does
C1_Witness ==
    /\ Called("get_or_create_collection")
    /\ HasItems(pre, Arg.collection_name)
    /\ \E m \in Names \ {Arg.collection_name} : HasItems(pre, m)

\* C5: delete_collection(name) never raises; of a collection that exists it
\* leaves collection_exists(name) False and get_collection_count(name) 0 and
\* every other collection unchanged; of a missing one it leaves the store
\* unchanged.
C5_Delete ==
    Called("delete_collection") =>
        LET name == Arg.collection_name
        IN  /\ ~op.raised
            /\ name \in DOMAIN pre =>
                  /\ collection_exists(store, name).ret = FALSE
                  /\ get_collection_count(store, name).ret = 0
                  /\ OthersUnchanged(name)
            /\ name \notin DOMAIN pre => store = pre

\* the call named a missing collection while another one held items
C5_Witness ==
    /\ Called("delete_collection")
    /\ Arg.collection_name \notin DOMAIN pre
    /\ \E m \in Names : HasItems(pre, m)

\* C6: collection_exists and get_collection_count never raise and change
\* nothing; the first returns True exactly for a name of the store, the
\* second the number of items of the collection, or 0 for a missing name.
C6_Observers ==
    /\ Called("collection_exists") =>
          /\ ~op.raised
          /\ op.ret <=> Arg.collection_name \in DOMAIN pre
          /\ store = pre
    /\ Called("get_collection_count") =>
          /\ ~op.raised
          /\ op.ret = IF Arg.collection_name \in DOMAIN pre
                      THEN Cardinality(DOMAIN pre[Arg.collection_name].items)
                      ELSE 0
          /\ store = pre

\* get_collection_count was asked about a missing name of a store that holds
\* another collection
C6_Witness ==
    /\ Called("get_collection_count")
    /\ Arg.collection_name \notin DOMAIN pre
    /\ \E m \in Names : HasItems(pre, m)

\* the ids an add without ids generates for a batch of n on a collection
\* that holds `existing_count` items
GeneratedIds(name, existing_count, n) ==
    IF name = "add_text_embeddings"
    THEN Range(TextAutoIds(existing_count, n))
    ELSE Range(ImgAutoIds(existing_count, n))

AutoAdd ==
    /\ op # Idle
    /\ op.name \in {"add_text_embeddings", "add_image_embeddings"}
    /\ Arg.ids = NoIds
    /\ ~op.raised

StoredIds(s, name) == IF name \in DOMAIN s THEN DOMAIN s[name].items ELSE {}

\* C7: no id an add without ids generates is an id the collection already
\* holds, so such an add of k items raises the count by exactly k.
C7_AutoIdsFresh ==
    AutoAdd =>
        LET name == Arg.collection_name
            k == Len(Arg.batch)
        IN  /\ GeneratedIds(op.name, Count(pre, name), k)
                   \cap StoredIds(pre, name) = {}
            /\ Count(store, name) = Count(pre, name) + k

(***************************************************************************)
(* Properties of build_vector_db_from_dataframes, under SpecBuild.         *)
(***************************************************************************)
Built == Called("build_vector_db_from_dataframes") /\ ~op.raised

\* the items a collection holds when it holds exactly the rows of a frame
TextItems(text_df) ==
    [id \in {TextId(text_df[i]) : i \in DOMAIN text_df} |->
        LET row == text_df[CHOOSE i \in DOMAIN text_df : TextId(text_df[i]) = id]
        IN  [document |-> row.chunk_text,
             embedding |-> row.text_embedding_chunk,
             metadata |-> TextMetadata(row)]]

ImageItems(image_df) ==
    [id \in {ImgId(image_df[i]) : i \in DOMAIN image_df} |->
        LET row == image_df[CHOOSE i \in DOMAIN image_df : ImgId(image_df[i]) = id]
        IN  [document |-> row.img_desc,
             embedding |-> row.mm_embedding_from_img_only,
             metadata |-> ImageMetadata(row, "image")]]

\* every item of `new` is an item of the collection
Holds(s, name, new) ==
    /\ name \in DOMAIN s
    /\ \A id \in DOMAIN new :
          id \in DOMAIN s[name].items /\ s[name].items[id] = new[id]

\* C2: build_vector_db_from_dataframes returns (text_built, image_built),
\* text_built being True exactly when force_rebuild is True or the text
\* collection did not exist at the start, image_built exactly when
\* force_rebuild is True or the image collection did not exist when its check
\* ran (it exists then if it existed at the start or the text branch has just
\* made it); a branch whose flag is True has added its rows, a branch whose
\* flag is False has left its collection alone.
C2_BuildFlags ==
    Built =>
        LET tn == Arg.text_collection_name
            in == Arg.image_collection_name
            text_built == op.ret[1]
            image_built == op.ret[2]
        IN  /\ text_built <=> (Arg.force_rebuild \/ tn \notin DOMAIN pre)
            /\ image_built <=>
                  (Arg.force_rebuild \/ (in \notin DOMAIN pre /\ in # tn))
            /\ image_built => Holds(store, in, ImageItems(Arg.image_df))
            /\ (text_built /\ ~(image_built /\ in = tn)) =>
                  Holds(store, tn, TextItems(Arg.text_df))
            /\ ~image_built => (in # tn => store[in] = pre[in])
            /\ ~text_built => (~(image_built /\ in = tn) => store[tn] = pre[tn])

\* one flag is True and the other False: the text collection was missing and
\* the image collection held items
C2_Witness ==
    /\ Built
    /\ ~Arg.force_rebuild
    /\ op.ret = <<TRUE, FALSE>>
    /\ Arg.text_collection_name # Arg.image_collection_name
    /\ HasItems(pre, Arg.image_collection_name)
    /\ HasItems(store, Arg.text_collection_name)

DistinctTextKeys(df) ==
    \A i, j \in DOMAIN df :
        i # j => <<df[i].file_name, df[i].page_num, df[i].chunk_number>>
                 # <<df[j].file_name, df[j].page_num, df[j].chunk_number>>

DistinctImageKeys(df) ==
    \A i, j \in DOMAIN df :
        i # j => <<df[i].file_name, df[i].page_num, df[i].img_num>>
                 # <<df[j].file_name, df[j].page_num, df[j].img_num>>

\* C3: after a build with force_rebuild=True on two collections, the rows of
\* each frame having pairwise distinct (file_name, page_num, number), the
\* text collection holds exactly one item per row of text_df, under the id
\* text_<file_name>_<page_num>_<chunk_number>, the image collection exactly
\* one item per row of image_df, under img_<file_name>_<page_num>_<img_num>,
\* and nothing either collection held before remains.
C3_ForcedRebuild ==
    (/\ Built
     /\ Arg.force_rebuild
     /\ Arg.text_collection_name # Arg.image_collection_name
     /\ DistinctTextKeys(Arg.text_df)
     /\ DistinctImageKeys(Arg.image_df)) =>
        LET tn == Arg.text_collection_name
            in == Arg.image_collection_name
        IN  /\ tn \in DOMAIN store /\ in \in DOMAIN store
            /\ store[tn].items = TextItems(Arg.text_df)
            /\ store[in].items = ImageItems(Arg.image_df)
            /\ Cardinality(DOMAIN store[tn].items) = Len(Arg.text_df)
            /\ Cardinality(DOMAIN store[in].items) = Len(Arg.image_df)

\* both collections held an item that is no row of the new frames
C3_Witness ==
    /\ Built
    /\ Arg.force_rebuild
    /\ Arg.text_collection_name # Arg.image_collection_name
    /\ Len(Arg.text_df) > 1
    /\ Len(Arg.image_df) > 1
    /\ HasItems(pre, Arg.text_collection_name)
    /\ HasItems(pre, Arg.image_collection_name)
    /\ \E id \in DOMAIN pre[Arg.text_collection_name].items :
          id \notin DOMAIN TextItems(Arg.text_df)
    /\ \E id \in DOMAIN pre[Arg.image_collection_name].items :
          id \notin DOMAIN ImageItems(Arg.image_df)

\* C4: a build with force_rebuild=False that finds both collections returns
\* (False, False) and changes nothing; so after any build with
\* force_rebuild=False has returned, a second one, whatever its frames,
\* returns (False, False) and leaves the store as the first left it.
C4_Idempotent ==
    (Built /\ ~Arg.force_rebuild) =>
        LET tn == Arg.text_collection_name
            in == Arg.image_collection_name
        IN  /\ (tn \in DOMAIN pre /\ in \in DOMAIN pre) =>
                  op.ret = <<FALSE, FALSE>> /\ store = pre
            /\ \A text_df \in TextFrames, image_df \in ImageFrames :
                  LET second == build_vector_db_from_dataframes(
                                    store, text_df, image_df, tn, in, FALSE)
                  IN  /\ ~second.raised
                      /\ second.ret = <<FALSE, FALSE>>
                      /\ second.store = store

\* the build found both collections, holding other items than its frames
C4_Witness ==
    /\ Built
    /\ ~Arg.force_rebuild
    /\ Arg.text_collection_name # Arg.image_collection_name
    /\ HasItems(pre, Arg.text_collection_name)
    /\ HasItems(pre, Arg.image_collection_name)
    /\ ~Holds(pre, Arg.text_collection_name, TextItems(Arg.text_df))
    /\ ~Holds(pre, Arg.image_collection_name, ImageItems(Arg.image_df))
    /\ Len(Arg.text_df) > 0
    /\ Len(Arg.image_df) > 0

(***************************************************************************)
(* The query flow of multimodal_rag.py, under SpecQuery.                   *)
(***************************************************************************)
\* the results rank the nearest items of the collection, nearest first
RankedFrom(results, items, q) ==
    LET ids == results.ids[1]
        d(id) == Distance(items[id].embedding, q)
    IN  /\ \A i \in DOMAIN ids :
              /\ ids[i] \in DOMAIN items
              /\ results.documents[1][i] = items[ids[i]].document
              /\ results.metadatas[1][i] = items[ids[i]].metadata
        /\ \A i, j \in DOMAIN ids : i < j => ids[i] # ids[j] /\ d(ids[i]) <= d(ids[j])
        /\ \A id \in DOMAIN items \ Range(ids) :
              \A i \in DOMAIN ids : d(ids[i]) <= d(id)

\* C8: the query flow is a fixed sequence of calls: the query embedding is
\* computed once, then the text collection is searched, then the
\* image_text collection with the same embedding (top_k=5 each), then the
\* generative model is called, once.  Each result dict has the keys 0..n-1,
\* n = min(5, number of items of the collection searched), key i holding the
\* i-th ranked result, and the text context of the prompt is the n chunk
\* texts in rank order joined by newlines.
C8_QueryFlow ==
    /\ Len(calls) <= 4
    /\ pc \in {"start", "build_text", "build_image", "build_image_text",
               "embed"} => calls = << >>
    /\ pc \in {"print", "done"} => Len(calls) = 4
    /\ Len(calls) >= 1 =>
          calls[1] = [fn |-> "get_text_embedding_from_text_embedding_model"]
    /\ Len(calls) >= 2 =>
          calls[2] = [fn |-> "search_similar",
                      collection_name |-> text_collection_name,
                      query_embedding |-> query_embedding, top_k |-> 5]
    /\ Len(calls) >= 3 =>
          calls[3] = [fn |-> "search_similar",
                      collection_name |-> image_text_collection_name,
                      query_embedding |-> query_embedding, top_k |-> 5]
    /\ Len(calls) = 4 =>
          LET chunks == matching_results_chunks_data
              images == matching_results_image_fromdescription_data
              n == Min(5, Count(store, text_collection_name))
              m == Min(5, Count(store, image_text_collection_name))
          IN  /\ calls[4] = [fn |-> "get_gemini_response",
                             model_input |-> <<prompt>>]
              /\ DOMAIN chunks = 0..(n - 1)
              /\ DOMAIN images = 0..(m - 1)
              /\ RankedFrom(text_results,
                            store[text_collection_name].items, query_embedding)
              /\ RankedFrom(image_results,
                            store[image_text_collection_name].items,
                            query_embedding)
              /\ \A i \in 0..(n - 1) :
                    /\ chunks[i].chunk_text = text_results.documents[1][i + 1]
                    /\ chunks[i].cosine_score
                          = 1 - text_results.distances[1][i + 1]
              /\ \A i \in 0..(m - 1) :
                    /\ images[i].image_description
                          = image_results.documents[1][i + 1]
                    /\ images[i].img_path
                          = image_results.metadatas[1][i + 1].img_path
              /\ prompt.final_context_text
                    = Join(Newline, [i \in 1..n |-> chunks[i - 1].chunk_text])

\* a run that ended after searching a text collection of more than five
\* items, some of them at the same distance from the query
C8_Witness ==
    /\ pc = "done"
    /\ Len(calls) = 4
    /\ Count(store, text_collection_name) > 5
    /\ Cardinality(DOMAIN matching_results_chunks_data) = 5
    /\ matching_results_chunks_data[0].cosine_score
          = matching_results_chunks_data[1].cosine_score
    /\ Cardinality(DOMAIN matching_results_image_fromdescription_data) >= 2

====
